---- MODULE Spec2Model ----
\* Model of browser_sync::WeakHandle<T> / internal::WeakHandleCore<T>
\* (chrome/browser/sync/weak_handle.h).  Threads operate on WeakHandle objects,
\* every thread has a message loop (a FIFO of bound closures), and a target
\* object lives behind each core's WeakPtr.
\*
\* Each action is one call of a WeakHandle member (or one message-loop
\* iteration) executed atomically: operations on one WeakHandle object are
\* taken to be serialised by their callers, the reference count is atomic
\* (RefCountedThreadSafe), and the message loop is thread-safe.
EXTENDS Integers, Sequences, FiniteSets, TLC

\* ---------------------------------------------------------------- bounds
MaxHandles == 2
MaxCalls == 2
MaxFairCalls == 1
MaxPolicy == 2
MaxRequests == 3

\* Either thread may construct the core and become its owner; the other one is
\* then a foreign thread.
Threads == {"A", "B"}
NoThread == "-"
Handles == 1..MaxHandles
\* One core and the target behind it: cores share nothing but the threads'
\* message loops.
Cores == {1}
NULL == 0

VARIABLES
    handles,    \* the WeakHandle objects that currently exist
    core_,      \* WeakHandle::core_ : NULL or the core the handle refers to
    cores,      \* per core: "unborn", "live" or "destroyed"
    owner,      \* per core: the thread of message_loop_proxy_
    ref_count,  \* per core: RefCountedThreadSafe count
    ptr_,       \* per core: the heap WeakPtr: "none", "live" or "deleted"
    target,     \* per core: the object behind the WeakPtr, with its thread
    queue,      \* per thread: its message loop's pending tasks
    calls,      \* history: one record per WeakHandle::Call made
    ptrAccess,  \* history: <<core, thread, kind>> of every touch of *ptr_
    crashed,    \* the failed CHECK that aborted the process, or NoCrash
    prov        \* the DeviceManagementPolicyProvider and its collaborators

\* The variables of the WeakHandle part of the model.
wvars == <<handles, core_, cores, owner, ref_count, ptr_, target, queue,
           calls, ptrAccess, crashed>>

vars == <<handles, core_, cores, owner, ref_count, ptr_, target, queue,
          calls, ptrAccess, crashed, prov>>

NoCrash == "none"

\* The program state as one record, so that the member functions below can
\* be written as functions from state to state and composed in code order.
Cur ==
    [handles |-> handles, core_ |-> core_, cores |-> cores, owner |-> owner,
     ref_count |-> ref_count, ptr_ |-> ptr_, target |-> target,
     queue |-> queue, calls |-> calls, ptrAccess |-> ptrAccess,
     crashed |-> crashed]

Commit(s) ==
    /\ handles' = s.handles
    /\ core_' = s.core_
    /\ cores' = s.cores
    /\ owner' = s.owner
    /\ ref_count' = s.ref_count
    /\ ptr_' = s.ptr_
    /\ target' = s.target
    /\ queue' = s.queue
    /\ calls' = s.calls
    /\ ptrAccess' = s.ptrAccess
    /\ crashed' = s.crashed
    /\ prov' = prov

\* CHECK(cond) failing: the process aborts; why names the failed CHECK.
Fatal(s, why) == [s EXCEPT !.crashed = why]

\* ------------------------------------------------------ WeakHandleCoreBase
\* message_loop_proxy_->BelongsToCurrentThread()
IsOnOwnerThread(s, c, t) == s.owner[c] = t

\* A touch of the heap WeakPtr by thread t.  Touching it after it was deleted
\* is a use after free and is recorded as such.
Touch(s, c, t, kind) ==
    [s EXCEPT !.ptrAccess =
        @ \cup {<<c, t, IF s.ptr_[c] = "live" THEN kind ELSE "uaf">>}]

DeleteTask(c) == [kind |-> "DeleteSoon", core |-> c, id |-> 0, a1 |-> 0]

\* delete ptr, executed by thread t; kind tells the inline delete ("delete")
\* from the one made by the message loop for DeleteSoon ("delete_soon").
DeletePtr(s, c, t, kind) ==
    [Touch(s, c, t, kind) EXCEPT !.ptr_[c] = "deleted"]

DeleteOnOwnerThread_Inline(s, c, t) == DeletePtr(s, c, t, "delete")

\* The deletion is posted to the owner's message loop from every thread.
DeleteOnOwnerThread_AlwaysPost(s, c, t) ==
    [s EXCEPT !.queue[s.owner[c]] = Append(@, DeleteTask(c))]

DeleteOnOwnerThread(s, c, t) ==
    IF IsOnOwnerThread(s, c, t)
    THEN DeletePtr(s, c, t, "delete")
    ELSE [s EXCEPT !.queue[s.owner[c]] = Append(@, DeleteTask(c))]

\* WeakHandleCoreBase(): "Assumes the current thread is the owner thread"; it
\* keeps the message loop proxy of the constructing thread t.
WeakHandleCoreBaseCtor(s, c, t) == [s EXCEPT !.owner[c] = t]

\* ---------------------------------------------------------- WeakHandleCore
\* The constructor CHECKs that it runs on the thread of the target.
WeakHandleCoreCtor_ChecksThread(s, c, t) ==
    IF s.target[c].thread # t
    THEN Fatal(s, "WeakHandleCore:thread")
    ELSE [WeakHandleCoreBaseCtor(s, c, t) EXCEPT
              !.cores[c] = "live",
              !.ptr_[c] = "live",
              !.ptrAccess = @ \cup {<<c, t, "new">>}]

\* WeakHandleCore(ptr) on thread t: ptr_(new base::WeakPtr<T>(ptr)).
WeakHandleCoreCtor(s, c, t) ==
    [WeakHandleCoreBaseCtor(s, c, t) EXCEPT
         !.cores[c] = "live",
         !.ptr_[c] = "live",
         !.ptrAccess = @ \cup {<<c, t, "new">>}]

\* ~WeakHandleCore(): may run on any thread.
DestroyCore(s, c, t) ==
    DeleteOnOwnerThread([s EXCEPT !.cores[c] = "destroyed"], c, t)

\* scoped_refptr / Bind taking and dropping a reference to the core.
AddRef(s, c) == [s EXCEPT !.ref_count[c] = @ + 1]

\* The core is destroyed when one reference is still left.
Release_DestroysWhileShared(s, c, t) ==
    LET s1 == [s EXCEPT !.ref_count[c] = @ - 1]
    IN  IF s1.ref_count[c] = 1 /\ s1.cores[c] = "live"
        THEN DestroyCore(s1, c, t)
        ELSE s1

Release(s, c, t) ==
    LET s1 == [s EXCEPT !.ref_count[c] = @ - 1]
    IN  IF s1.ref_count[c] = 0 THEN DestroyCore(s1, c, t) ELSE s1

\* (ptr_->get()->*fn)(a1...) : the target's member runs on thread t and adds
\* its argument to the target's counter.
InvokeTarget(s, c, t, id, a1) ==
    [s EXCEPT !.target[c].counter = @ + a1,
              !.calls[id].runs = @ + 1,
              !.calls[id].st = "ran",
              !.calls[id].xt = t,
              !.calls[id].xarg = a1,
              !.calls[id].xalive = s.target[c].alive]

DoCall_NoLivenessCheck(s, c, t, id, a1) ==
    IF ~IsOnOwnerThread(s, c, t)
    THEN Fatal(s, "DoCall:IsOnOwnerThread")
    ELSE InvokeTarget(Touch(s, c, t, "call"), c, t, id, a1)

DoCall_InvertedCheck(s, c, t, id, a1) ==
    IF ~IsOnOwnerThread(s, c, t)
    THEN Fatal(s, "DoCall:IsOnOwnerThread")
    ELSE LET s1 == Touch(s, c, t, "call")
         IN  IF s1.target[c].alive
             THEN [s1 EXCEPT !.calls[id].st = "dropped"]
             ELSE InvokeTarget(s1, c, t, id, a1)

DoCall_LivenessAtSubmission(s, c, t, id, a1) ==
    IF ~IsOnOwnerThread(s, c, t)
    THEN Fatal(s, "DoCall:IsOnOwnerThread")
    ELSE LET s1 == Touch(s, c, t, "call")
         IN  IF ~s1.calls[id].alive
             THEN [s1 EXCEPT !.calls[id].st = "dropped"]
             ELSE InvokeTarget(s1, c, t, id, a1)

\* A dead target makes the call post itself again instead of returning.
DoCall_Requeue(s, c, t, id, a1) ==
    IF ~IsOnOwnerThread(s, c, t)
    THEN Fatal(s, "DoCall:IsOnOwnerThread")
    ELSE LET s1 == Touch(s, c, t, "call")
         IN  IF ~s1.target[c].alive
             THEN [AddRef(s1, c) EXCEPT
                      !.calls[id].st = "dropped",
                      !.queue[t] = Append(@, [kind |-> "DoCall", core |-> c,
                                              id |-> id, a1 |-> a1])]
             ELSE InvokeTarget(s1, c, t, id, a1)

\* A dead target is treated as a failed CHECK instead of a silent return.
DoCall_CheckTargetAlive(s, c, t, id, a1) ==
    IF ~IsOnOwnerThread(s, c, t)
    THEN Fatal(s, "DoCall:IsOnOwnerThread")
    ELSE LET s1 == Touch(s, c, t, "call")
         IN  IF ~s1.target[c].alive
             THEN Fatal(s1, "DoCall:target")
             ELSE InvokeTarget(s1, c, t, id, a1)

\* DoCall0 .. DoCall4: the body of the bound closure.
DoCall(s, c, t, id, a1) ==
    IF ~IsOnOwnerThread(s, c, t)
    THEN Fatal(s, "DoCall:IsOnOwnerThread")
    ELSE LET s1 == Touch(s, c, t, "call")
         IN  IF ~s1.target[c].alive
             THEN [s1 EXCEPT !.calls[id].st = "dropped"]
             ELSE InvokeTarget(s1, c, t, id, a1)

\* The closure drops its reference to the core before its body runs.
RunClosure_ReleaseFirst(s, task, t) ==
    LET s1 == Release(s, task.core, t)
    IN  IF s1.crashed # NoCrash THEN s1
        ELSE DoCall(s1, task.core, t, task.id, task.a1)

\* Running a bound closure on thread t, then destroying it (which drops the
\* reference Bind took on the core).
RunClosure(s, task, t) ==
    LET s1 == DoCall(s, task.core, t, task.id, task.a1)
    IN  IF s1.crashed # NoCrash THEN s1 ELSE Release(s1, task.core, t)

PostOnOwnerThread(s, c, t, task) ==
    IF IsOnOwnerThread(s, c, t)
    THEN RunClosure(s, task, t)
    ELSE [s EXCEPT !.queue[s.owner[c]] = Append(@, task)]

CallRecord(s, c, t, a1) ==
    [core |-> c, from |-> t, a1 |-> a1, alive |-> s.target[c].alive,
     c0 |-> s.target[c].counter, st |-> "queued", runs |-> 0,
     xt |-> NoThread, xarg |-> 0, xalive |-> FALSE]

CallTask(c, id, a1) == [kind |-> "DoCall", core |-> c, id |-> id, a1 |-> a1]

\* Bind() of a default-constructed value where a1 should have been bound.
CoreCall_ArgNotBound(s, c, t, a1) ==
    LET s1 == [s EXCEPT !.calls = Append(@, CallRecord(s, c, t, a1))]
    IN  PostOnOwnerThread(AddRef(s1, c), c, t, CallTask(c, Len(s.calls) + 1, 0))

\* The closure is posted to the owner's message loop from every thread.
CoreCall_AlwaysPost(s, c, t, a1) ==
    LET s1 == [s EXCEPT !.calls = Append(@, CallRecord(s, c, t, a1))]
    IN  [AddRef(s1, c) EXCEPT !.queue[s.owner[c]] =
            Append(@, CallTask(c, Len(s.calls) + 1, a1))]

\* The closure is run in place on every thread.
CoreCall_AlwaysInline(s, c, t, a1) ==
    LET s1 == [s EXCEPT !.calls = Append(@, CallRecord(s, c, t, a1))]
    IN  RunClosure(AddRef(s1, c), CallTask(c, Len(s.calls) + 1, a1), t)

\* The closure is put at the front of the owner's message loop.
CoreCall_PostAtFront(s, c, t, a1) ==
    LET s1 == [s EXCEPT !.calls = Append(@, CallRecord(s, c, t, a1))]
        task == CallTask(c, Len(s.calls) + 1, a1)
    IN  IF IsOnOwnerThread(s, c, t)
        THEN RunClosure(AddRef(s1, c), task, t)
        ELSE [AddRef(s1, c) EXCEPT !.queue[s.owner[c]] = <<task>> \o @]

\* Bind(&DoCallN, base::Unretained(this), ...): the closure takes no
\* reference to the core.
CoreCall_Unretained(s, c, t, a1) ==
    LET s1 == [s EXCEPT !.calls = Append(@, CallRecord(s, c, t, a1))]
    IN  PostOnOwnerThread(s1, c, t, CallTask(c, Len(s.calls) + 1, a1))

\* A call made on the owner thread queues up behind the tasks that are
\* already waiting, which keeps the calls in the order of their submission.
CoreCall_QueuesBehindPending(s, c, t, a1) ==
    LET id == Len(s.calls) + 1
        s1 == [s EXCEPT !.calls = Append(@, CallRecord(s, c, t, a1))]
    IN  IF s.queue[s.owner[c]] # << >>
        THEN [AddRef(s1, c) EXCEPT !.queue[s.owner[c]] =
                Append(@, CallTask(c, id, a1))]
        ELSE PostOnOwnerThread(AddRef(s1, c), c, t, CallTask(c, id, a1))

\* WeakHandleCore::Call: Bind(&DoCallN, this, fn, a1) and PostOnOwnerThread.
CoreCall(s, c, t, a1) ==
    LET id == Len(s.calls) + 1
        s1 == [s EXCEPT !.calls = Append(@, CallRecord(s, c, t, a1))]
    IN  PostOnOwnerThread(AddRef(s1, c), c, t, CallTask(c, id, a1))

\* WeakHandleCore::Get
CoreGet(s, c, t) ==
    IF ~IsOnOwnerThread(s, c, t)
    THEN Fatal(s, "Core::Get:IsOnOwnerThread")
    ELSE Touch(s, c, t, "get")

\* -------------------------------------------------------------- WeakHandle
\* IsInitialized() that also asks whether the target is still alive.
IsInitialized_ChecksTarget(s, h) ==
    s.core_[h] # NULL /\ s.target[s.core_[h]].alive

IsInitialized(s, h) == s.core_[h] # NULL

\* A copy of the raw pointer: the new reference is not counted.
SetCore_NoAddRef(s, h, c, t) ==
    LET old == s.core_[h]
        s2 == [s EXCEPT !.core_[h] = c]
    IN  IF old # NULL THEN Release(s2, old, t) ELSE s2

\* scoped_refptr::operator=(T*): take the new reference, drop the old one.
SetCore(s, h, c, t) ==
    LET old == s.core_[h]
        s1 == IF c # NULL THEN AddRef(s, c) ELSE s
        s2 == [s1 EXCEPT !.core_[h] = c]
    IN  IF old # NULL THEN Release(s2, old, t) ELSE s2

\* Reset() that drops its share of the core but keeps the stale core_.
HandleReset_KeepsCore(s, h, t) ==
    IF s.core_[h] # NULL THEN Release(s, s.core_[h], t) ELSE s

\* Reset() that deletes the core instead of releasing its share of it.
HandleReset_DeletesCore(s, h, t) ==
    IF s.core_[h] = NULL THEN s
    ELSE DestroyCore([s EXCEPT !.core_[h] = NULL,
                               !.ref_count[s.core_[h]] = @ - 1],
                     s.core_[h], t)

HandleReset(s, h, t) == SetCore(s, h, NULL, t)

\* Get() without the owner-thread CHECKs.
HandleGet_NoThreadCheck(s, h, t) ==
    IF ~IsInitialized(s, h) THEN Fatal(s, "Get:IsInitialized")
    ELSE Touch(s, s.core_[h], t, "get")

HandleGet(s, h, t) ==
    IF ~IsInitialized(s, h) THEN Fatal(s, "Get:IsInitialized")
    ELSE IF ~IsOnOwnerThread(s, s.core_[h], t)
    THEN Fatal(s, "Get:IsOnOwnerThread")
    ELSE CoreGet(s, s.core_[h], t)

\* Call() without CHECK(IsInitialized()): core_-> on a NULL core_ faults.
HandleCall_NoInitCheck(s, h, t, a1) ==
    IF ~IsInitialized(s, h) THEN Fatal(s, "NULL dereference")
    ELSE CoreCall(s, s.core_[h], t, a1)

HandleCall(s, h, t, a1) ==
    IF ~IsInitialized(s, h) THEN Fatal(s, "Call:IsInitialized")
    ELSE CoreCall(s, s.core_[h], t, a1)

\* ----------------------------------------------------------------- actions
Running == crashed = NoCrash

\* A new WeakHandle object takes the first free slot (slots are interchangeable).
Fresh(h) == h \notin handles /\ \A g \in Handles : g < h => g \in handles

\* WeakHandle()
DefaultConstruct(t, h) ==
    /\ Running
    /\ Fresh(h)
    /\ Commit([Cur EXCEPT !.handles = @ \cup {h}, !.core_[h] = NULL])

\* WeakHandle(ptr) on thread t: core_(new WeakHandleCore<T>(ptr)), for the
\* WeakPtr of a target that lives on thread u.
HandleCtor(s, h, c, t, u) ==
    LET s1 == WeakHandleCoreCtor([s EXCEPT !.target[c].thread = u], c, t)
    IN  IF s1.crashed # NoCrash THEN s1
        ELSE [s1 EXCEPT !.handles = @ \cup {h},
                        !.core_[h] = c,
                        !.ref_count[c] = 1]

\* MakeWeakHandle(ptr) / WeakHandle(ptr) on thread t, for a live target that
\* belongs to t.
MakeWeakHandle(t, h) ==
    /\ Running
    /\ Fresh(h)
    /\ \E c \in Cores :
        /\ cores[c] = "unborn"
        /\ \A d \in Cores : d < c => cores[d] # "unborn"
        /\ Commit(HandleCtor(Cur, h, c, t, t))

\* MakeWeakHandle(ptr) on thread t for a target that lives on another thread:
\* the caller breaks the contract of the constructor.
MakeWeakHandleOffThread(t, h) ==
    /\ Running
    /\ Fresh(h)
    /\ \E c \in Cores, u \in Threads \ {t} :
        /\ cores[c] = "unborn"
        /\ \A d \in Cores : d < c => cores[d] # "unborn"
        /\ Commit(HandleCtor(Cur, h, c, t, u))

\* WeakHandle(const WeakHandle&): h2 is copy-constructed from h.
Copy(t, h, h2) ==
    /\ Running
    /\ h \in handles
    /\ Fresh(h2)
    /\ LET s1 == [Cur EXCEPT !.handles = @ \cup {h2}]
       IN  Commit(SetCore(s1, h2, core_[h], t))

\* operator=(const WeakHandle&): h2 = h.
Assign(t, h, h2) ==
    /\ Running
    /\ h \in handles
    /\ h2 \in handles
    /\ Commit(SetCore(Cur, h2, core_[h], t))

Reset(t, h) ==
    /\ Running
    /\ h \in handles
    /\ Commit(HandleReset(Cur, h, t))

\* ~WeakHandle()
Destroy(t, h) ==
    /\ Running
    /\ h \in handles
    /\ LET s1 == HandleReset(Cur, h, t)
       IN  Commit([s1 EXCEPT !.handles = @ \ {h}])

Get(t, h) ==
    /\ Running
    /\ h \in handles
    /\ Commit(HandleGet(Cur, h, t))

\* The argument given to the next Call: every Call passes a value of its own,
\* so that the arguments of different calls can be told apart.
NextArg == Len(calls) + 1

\* Call(from_here, fn, a1...): the overloads differ only in the number of
\* arguments they bind; a1 stands for the bound arguments.
Call(t, h) ==
    /\ Running
    /\ h \in handles
    /\ Len(calls) < MaxCalls
    /\ Commit(HandleCall(Cur, h, t, NextArg))

\* The target object is destroyed on its own thread; its WeakPtrs go null.
DestroyTarget(t, c) ==
    /\ Running
    /\ cores[c] # "unborn"
    /\ target[c].thread = t
    /\ target[c].alive
    /\ Commit([Cur EXCEPT !.target[c].alive = FALSE])

\* One iteration of thread t's message loop.
RunTask(t) ==
    /\ Running
    /\ queue[t] # << >>
    /\ LET task == Head(queue[t])
           s1 == [Cur EXCEPT !.queue[t] = Tail(@)]
           s2 == IF task.kind = "DeleteSoon"
                 THEN DeletePtr(s1, task.core, t, "delete_soon")
                 ELSE RunClosure(s1, task, t)
       IN  Commit(s2)

\* ------------------------------------------ DeviceManagementPolicyProvider
\* The provider lives on the UI thread; every step below is one task of that
\* thread's message loop.  The backend answers a request in a later task.
\*
\* A policy is identified by its version, NoPolicy standing for "no policy".
NoPolicy == 0
Policies == 1 .. MaxPolicy

\* AllShouldSucceed, AllShouldFail and RegisterFailsOncePolicyFailsTwice of
\* the mock backend.
FailsFirst == "register_fails_once_policy_fails_twice"
BackendModes == {"succeed", "fail", FailsFirst}

\* A delay is either zero, so that the delayed task is due at once, or long:
\* the task is not run until the time has passed.
Zero == 0
Long == 1
Delays == {Zero, Long}

\* The state before the first provider is created: nothing on disk, the
\* backend succeeding and serving the first policy.
ProvInit ==
    [alive                   |-> FALSE,     \* a provider exists
     backend                 |-> "succeed", \* the mock backend's behaviour
     register_failures       |-> 0,         \* register requests still to fail
     policy_failures         |-> 0,         \* policy requests still to fail
     server_policy           |-> 1,         \* the policy the backend serves
     register_in_flight      |-> 0,         \* register requests not answered
     policy_in_flight        |-> 0,         \* policy requests not answered
     n_register              |-> 0,         \* ProcessRegisterRequest calls
     n_policy                |-> 0,         \* ProcessPolicyRequest calls
     disk_policy             |-> NoPolicy,  \* the policy file in storage_dir_
     disk_token              |-> FALSE,     \* the token file in storage_dir_
     cache_                  |-> NoPolicy,  \* the policy held by cache_
     logged_in               |-> FALSE,     \* the auth token was issued
     token                   |-> FALSE,     \* the device token is valid
     register_pending        |-> FALSE,     \* the fetcher awaits its answer
     policy_request_pending_ |-> FALSE,
     refresh_task_pending_   |-> FALSE,
     refresh_task_due        |-> FALSE,     \* the task's delay has passed
     policy_refresh_rate_ms_        |-> Long,
     policy_refresh_error_delay_ms_ |-> Long,
     token_fetch_error_delay_ms_    |-> Long,
     provided                |-> FALSE,     \* Provide ran on this provider
     store                   |-> NoPolicy,  \* what the last Provide applied
     fetched                 |-> NoPolicy,  \* the last policy response
     waited                  |-> FALSE,     \* a long delay has passed
     switched                |-> FALSE]     \* the backend changed after login

WithBackend_PolicyFailsOnce(p, mode) ==
    [p EXCEPT !.backend = mode,
              !.register_failures = IF mode = FailsFirst THEN 1 ELSE 0,
              !.policy_failures = IF mode = FailsFirst THEN 1 ELSE 0]

\* The failure budget of a backend put into the given mode.
WithBackend(p, mode) ==
    [p EXCEPT !.backend = mode,
              !.register_failures = IF mode = FailsFirst THEN 1 ELSE 0,
              !.policy_failures = IF mode = FailsFirst THEN 2 ELSE 0]

IsPolicyRequestPending_UntilRefresh(p) ==
    p.policy_request_pending_ \/ p.refresh_task_pending_

\* True if a policy request has been sent to the backend and no response or
\* error has yet been received.
IsPolicyRequestPending(p) == p.policy_request_pending_

\* Schedules a new RefreshTask, to run after the delay.
ScheduleRefreshTask(p, delay_in_milliseconds) ==
    [p EXCEPT !.refresh_task_pending_ = TRUE,
              !.refresh_task_due = (delay_in_milliseconds = Zero)]

\* MockDeviceManagementBackend::ProcessPolicyRequest: the request is counted
\* and answered later.
ProcessPolicyRequest(p) ==
    [p EXCEPT !.n_policy = @ + 1, !.policy_in_flight = @ + 1]

\* MockDeviceManagementBackend::ProcessRegisterRequest.
ProcessRegisterRequest(p) ==
    [p EXCEPT !.n_register = @ + 1, !.register_in_flight = @ + 1]

\* Sends a policy request to the backend if one is not already outstanding.
SendPolicyRequest(p) ==
    IF p.policy_request_pending_
    THEN p
    ELSE ProcessPolicyRequest([p EXCEPT !.policy_request_pending_ = TRUE])

\* Sends a register request for a device token if the token service has the
\* auth token and no request is in flight.
StartFetching(p) ==
    IF p.logged_in /\ ~p.token /\ ~p.register_pending
    THEN ProcessRegisterRequest([p EXCEPT !.register_pending = TRUE])
    ELSE p

\* DeviceTokenFetcher::Observer: the device token is available.
OnTokenSuccess(p) ==
    IF p.policy_request_pending_ THEN p ELSE SendPolicyRequest(p)

\* DeviceTokenFetcher::Observer: fetching the device token failed; the fetch
\* is retried by the refresh task after the token fetch error delay.
OnTokenError(p) == ScheduleRefreshTask(p, p.token_fetch_error_delay_ms_)

\* DevicePolicyResponseDelegate: the backend answered with policy v, which is
\* stored in the cache and persisted to the policy file; the next refresh is
\* scheduled at the refresh rate.
HandlePolicyResponse(p, v) ==
    ScheduleRefreshTask([p EXCEPT !.cache_ = v,
                                  !.disk_policy = v,
                                  !.fetched = v,
                                  !.policy_request_pending_ = FALSE],
                        p.policy_refresh_rate_ms_)

\* DevicePolicyResponseDelegate: the policy request failed; the cached policy
\* stays and the request is retried by the refresh task after the policy
\* refresh error delay.
OnError(p) ==
    ScheduleRefreshTask([p EXCEPT !.policy_request_pending_ = FALSE],
                        p.policy_refresh_error_delay_ms_)

\* Triggers a policy refresh, re-requesting the device token and the policy
\* as necessary.
RefreshTaskExecute(p) ==
    LET p1 == [p EXCEPT !.refresh_task_pending_ = FALSE,
                        !.refresh_task_due = FALSE]
    IN  IF p1.token THEN SendPolicyRequest(p1) ELSE StartFetching(p1)

\* Called by the constructor: loads the cache from the policy file of
\* storage_dir_ and starts the token fetcher, which reports a token found on
\* disk at once.
Initialize(p) ==
    LET p1 == [p EXCEPT !.alive = TRUE,
                        !.cache_ = p.disk_policy,
                        !.token = p.disk_token,
                        !.logged_in = FALSE,
                        !.register_pending = FALSE,
                        !.policy_request_pending_ = FALSE,
                        !.refresh_task_pending_ = FALSE,
                        !.refresh_task_due = FALSE,
                        !.policy_refresh_rate_ms_ = Long,
                        !.policy_refresh_error_delay_ms_ = Long,
                        !.token_fetch_error_delay_ms_ = Long,
                        !.provided = FALSE,
                        !.store = NoPolicy]
    IN  IF p1.token THEN OnTokenSuccess(p1) ELSE p1

\* ConfigurationPolicyProvider::Provide: applies the cached policy to the
\* store, nothing if the cache is empty.
Provide(p) == [p EXCEPT !.provided = TRUE, !.store = p.cache_]

\* One step of the provider: the WeakHandle part stands still.
ProvCommit(p) == prov' = p /\ UNCHANGED wvars

\* A new backend in the given mode, with no request sent to it yet.
CreateNewBackend(p, mode) ==
    [WithBackend(p, mode) EXCEPT !.register_in_flight = 0,
                                 !.policy_in_flight = 0,
                                 !.n_register = 0,
                                 !.n_policy = 0,
                                 !.waited = FALSE,
                                 !.switched = FALSE]

CreateNewProvider_NewStorageDir(mode) ==
    ProvCommit(Initialize([CreateNewBackend(prov, mode)
                              EXCEPT !.disk_policy = NoPolicy,
                                     !.disk_token = FALSE]))

\* CreateNewBackend and CreateNewProvider of the test fixture: the old
\* provider, its backend and its token service are dropped, the files in the
\* storage directory stay.
CreateNewProvider(mode) ==
    ProvCommit(Initialize(CreateNewBackend(prov, mode)))

\* AllShouldSucceed / AllShouldFail / RegisterFailsOncePolicyFailsTwice on
\* the current backend.
SetBackendMode(mode) ==
    /\ prov.alive
    /\ prov.backend # mode
    /\ ProvCommit([WithBackend(prov, mode)
                      EXCEPT !.switched = prov.logged_in \/ prov.token])

\* SetRefreshDelays of the unit tests, called before the login.
SetRefreshDelays(rate, policy_error, token_error) ==
    /\ prov.alive
    /\ ~prov.logged_in
    /\ ~prov.token
    /\ ProvCommit([prov EXCEPT
                      !.policy_refresh_rate_ms_ = rate,
                      !.policy_refresh_error_delay_ms_ = policy_error,
                      !.token_fetch_error_delay_ms_ = token_error])

\* The policy on the server changes.
ServerPolicyChanges ==
    /\ prov.server_policy < MaxPolicy
    /\ ProvCommit([prov EXCEPT !.server_policy = @ + 1])

\* SimulateSuccessfulLoginAndRunPending: the token service gets the auth
\* token and the token fetcher starts registering.
IssueAuthToken ==
    /\ prov.alive
    /\ ~prov.logged_in
    /\ ProvCommit(StartFetching([prov EXCEPT !.logged_in = TRUE]))

\* The backend answers a register request.
RegisterResponse ==
    /\ prov.register_in_flight > 0
    /\ LET p1 == [prov EXCEPT !.register_in_flight = @ - 1,
                              !.register_pending = FALSE]
       IN  IF prov.backend = "fail" \/ prov.register_failures > 0
           THEN ProvCommit(OnTokenError(
                    [p1 EXCEPT !.register_failures =
                                    IF @ > 0 THEN @ - 1 ELSE 0]))
           ELSE ProvCommit(OnTokenSuccess([p1 EXCEPT !.token = TRUE,
                                                     !.disk_token = TRUE]))

\* The backend answers a policy request.
PolicyResponse ==
    /\ prov.policy_in_flight > 0
    /\ LET p1 == [prov EXCEPT !.policy_in_flight = @ - 1]
       IN  IF prov.backend = "fail" \/ prov.policy_failures > 0
           THEN ProvCommit(OnError(
                    [p1 EXCEPT !.policy_failures =
                                    IF @ > 0 THEN @ - 1 ELSE 0]))
           ELSE ProvCommit(HandlePolicyResponse(p1, prov.server_policy))

\* The long delay of the scheduled RefreshTask passes.
DelayElapses ==
    /\ prov.refresh_task_pending_
    /\ ~prov.refresh_task_due
    /\ ProvCommit([prov EXCEPT !.refresh_task_due = TRUE, !.waited = TRUE])

\* The scheduled RefreshTask runs once it is due.  The number of requests a
\* backend receives is capped by MaxRequests.
RefreshTask ==
    /\ prov.refresh_task_pending_
    /\ prov.refresh_task_due
    /\ IF prov.token
       THEN prov.n_policy < MaxRequests
       ELSE prov.n_register < MaxRequests
    /\ ProvCommit(RefreshTaskExecute(prov))

\* The policy store asks the provider for its policy.
ProvideStep ==
    /\ prov.alive
    /\ ProvCommit(Provide(prov))

Init ==
    /\ handles = {}
    /\ core_ = [h \in Handles |-> NULL]
    /\ cores = [c \in Cores |-> "unborn"]
    /\ owner = [c \in Cores |-> NoThread]
    /\ ref_count = [c \in Cores |-> 0]
    /\ ptr_ = [c \in Cores |-> "none"]
    /\ target = [c \in Cores |->
                    [alive |-> TRUE, counter |-> 0, thread |-> NoThread]]
    /\ queue = [t \in Threads |-> << >>]
    /\ calls = << >>
    /\ ptrAccess = {}
    /\ crashed = NoCrash
    /\ prov = ProvInit

Next ==
    \/ \E t \in Threads, h \in Handles : DefaultConstruct(t, h)
    \/ \E t \in Threads, h \in Handles : MakeWeakHandle(t, h)
    \/ \E t \in Threads, h \in Handles, h2 \in Handles : Copy(t, h, h2)
    \/ \E t \in Threads, h \in Handles, h2 \in Handles : Assign(t, h, h2)
    \/ \E t \in Threads, h \in Handles : Reset(t, h)
    \/ \E t \in Threads, h \in Handles : Destroy(t, h)
    \/ \E t \in Threads, h \in Handles : Get(t, h)
    \/ \E t \in Threads, h \in Handles : Call(t, h)
    \/ \E t \in Threads, c \in Cores : DestroyTarget(t, c)
    \/ \E t \in Threads : RunTask(t)

Spec == Init /\ [][Next]_vars

\* The runs in which no CHECK fails (every caller keeps the contracts of Get
\* and Call), at most MaxFairCalls Calls are made, and every thread's message
\* loop keeps running its pending tasks.
NextNoAbort == Next /\ crashed' = NoCrash /\ Len(calls') <= MaxFairCalls

FairSpec ==
    Init /\ [][NextNoAbort]_vars /\ \A t \in Threads : WF_vars(RunTask(t))

\* A third thread that only submits Calls (it owns no core, so nothing is ever
\* posted to a message loop of its own).
Submitter == "C"

\* The runs in which the threads share one core through copies of its handle
\* and submit Calls to it, the third thread included.
NextOrder ==
    \/ \E t \in Threads, h \in Handles : MakeWeakHandle(t, h)
    \/ \E t \in Threads, h \in Handles, h2 \in Handles : Copy(t, h, h2)
    \/ \E t \in Threads \cup {Submitter}, h \in Handles : Call(t, h)
    \/ \E t \in Threads, c \in Cores : DestroyTarget(t, c)
    \/ \E t \in Threads : RunTask(t)

OrderSpec == Init /\ [][NextOrder]_vars

\* The runs in which a handle may also be constructed on a thread that is not
\* the target's.  Only the operations that never dereference the WeakPtr are
\* followed: reading it on a thread other than the target's is a data race.
NextMisuse ==
    \/ \E t \in Threads, h \in Handles : DefaultConstruct(t, h)
    \/ \E t \in Threads, h \in Handles : MakeWeakHandle(t, h)
    \/ \E t \in Threads, h \in Handles : MakeWeakHandleOffThread(t, h)
    \/ \E t \in Threads, h \in Handles, h2 \in Handles : Copy(t, h, h2)
    \/ \E t \in Threads, h \in Handles, h2 \in Handles : Assign(t, h, h2)
    \/ \E t \in Threads, h \in Handles : Reset(t, h)
    \/ \E t \in Threads, h \in Handles : Destroy(t, h)
    \/ \E t \in Threads, c \in Cores : DestroyTarget(t, c)
    \/ \E t \in Threads :
            /\ queue[t] # << >>
            /\ Head(queue[t]).kind = "DeleteSoon"
            /\ RunTask(t)

MisuseSpec == Init /\ [][NextMisuse]_vars

\* The runs of the policy provider, the unit tests' scenarios among them.
NextProvider ==
    \/ \E mode \in BackendModes : CreateNewProvider(mode)
    \/ \E mode \in BackendModes : SetBackendMode(mode)
    \/ \E rate \in Delays, policy_error \in Delays, token_error \in Delays :
            SetRefreshDelays(rate, policy_error, token_error)
    \/ ServerPolicyChanges
    \/ IssueAuthToken
    \/ RegisterResponse
    \/ PolicyResponse
    \/ DelayElapses
    \/ RefreshTask
    \/ ProvideStep

ProviderSpec == Init /\ [][NextProvider]_vars

\* SetUp of the test fixture: the one provider of a test is created over an
\* empty storage directory.
SetUp(mode) ==
    /\ ~prov.alive
    /\ CreateNewProvider(mode)

\* The runs of one provider over a storage directory that starts empty, as in
\* ErrorCausesNewRequest and EmptyProvideWithFailedBackend.  The message loop
\* keeps running tasks, the backend keeps answering and time keeps passing.
NextRetry ==
    \/ \E mode \in BackendModes : SetUp(mode)
    \/ \E mode \in BackendModes : SetBackendMode(mode)
    \/ \E rate \in Delays, policy_error \in Delays, token_error \in Delays :
            SetRefreshDelays(rate, policy_error, token_error)
    \/ IssueAuthToken
    \/ RegisterResponse
    \/ PolicyResponse
    \/ DelayElapses
    \/ RefreshTask

RetrySpec ==
    /\ Init
    /\ [][NextRetry]_vars
    /\ WF_vars(RegisterResponse)
    /\ WF_vars(PolicyResponse)
    /\ WF_vars(DelayElapses)
    /\ WF_vars(RefreshTask)

TypeOK ==
    /\ handles \subseteq Handles
    /\ \A h \in Handles : core_[h] \in Cores \cup {NULL}
    /\ \A c \in Cores : ref_count[c] >= 0

\* ------------------------------------------------------------------ claims
Ids == DOMAIN calls
OwnerOf(i) == owner[calls[i].core]
Foreign(i) == calls[i].from # OwnerOf(i)

\* C1: every touch of a core's heap WeakPtr (its construction, the read in
\* Get, the liveness check of a dispatched call, its deletion) is made by the
\* core's owner thread, whichever threads used the handles.
C1_PtrOnlyOnOwnerThread ==
    \A a \in ptrAccess : a[2] = owner[a[1]]

\* A foreign thread made a Call and dropped the last reference, and the
\* WeakPtr has been read by Get, read by the dispatched call and deleted.
C1_Witness ==
    \E c \in Cores :
        /\ \E i \in Ids : Foreign(i) /\ calls[i].st # "queued"
        /\ {<<c, owner[c], "get">>, <<c, owner[c], "call">>,
            <<c, owner[c], "delete_soon">>} \subseteq ptrAccess

\* C2: every execution of a target member ran on the owner thread of the core
\* and on a target that was alive when it ran.
C2_RunsOnOwnerThreadOnLiveTarget ==
    \A i \in Ids :
        calls[i].runs > 0 => calls[i].xt = OwnerOf(i) /\ calls[i].xalive

\* A Call made on a foreign thread, and one made on the owner thread, ran.
C2_Witness ==
    \E i, j \in Ids :
        /\ Foreign(i) /\ calls[i].runs = 1
        /\ ~Foreign(j) /\ calls[j].runs = 1

\* C3: a Call made after the target was destroyed never runs the target
\* member: its run count stays 0, the target's counter stays what it was at
\* submission, and once its task has run the call is recorded as dropped.
C3_CallAfterDestructionIsNoOp ==
    \A i \in Ids :
        ~calls[i].alive =>
            /\ calls[i].runs = 0
            /\ calls[i].st \in {"queued", "dropped"}
            /\ target[calls[i].core].counter = calls[i].c0

\* The scenario of the spec: a foreign Call ran, the target was destroyed, a
\* second foreign Call was made and the owner's queue has been drained.
C3_Witness ==
    \E i, j \in Ids :
        /\ Foreign(i) /\ calls[i].runs = 1
        /\ Foreign(j) /\ ~calls[j].alive /\ calls[j].st = "dropped"
        /\ queue[OwnerOf(j)] = << >>
        /\ crashed = NoCrash

\* The step dispatches call number i, which a foreign thread submitted while
\* the target was alive, after the target has been destroyed.
LateDispatch(i) ==
    /\ Foreign(i)
    /\ calls[i].alive
    /\ ~target[calls[i].core].alive
    /\ calls[i].st = "queued"
    /\ calls'[i].st # "queued"

\* C4: when the task of a foreign Call submitted on a live target runs after
\* the target was destroyed, the step leaves the target as it was and the call
\* is dropped without running.
C4_LateTaskHasNoEffect ==
    [][\A i \in Ids :
        LateDispatch(i) =>
            /\ target' = target
            /\ calls'[i].st = "dropped"
            /\ calls'[i].runs = 0]_vars

C4_Witness ==
    \E i \in Ids :
        /\ Foreign(i) /\ calls[i].alive /\ calls[i].st = "dropped"
        /\ ~target[calls[i].core].alive

\* Call number i was made on a foreign thread and has not been dispatched yet.
ForeignPending(i) == i \in Ids /\ Foreign(i) /\ calls[i].st = "queued"

\* Call number i ran once, on the owner thread, with the argument it was
\* given.
RanOnce(i) ==
    /\ i \in Ids
    /\ calls[i].runs = 1
    /\ calls[i].xt = OwnerOf(i)
    /\ calls[i].xarg = calls[i].a1

\* C5: with the owner's message loop running its tasks and no CHECK failing
\* (FairSpec), a Call made on a foreign thread leads to the target member
\* having run exactly once, on the owner thread, with the argument supplied,
\* unless the target is destroyed first; and no Call ever ran in another way.
C5_ForeignCallEventuallyRunsOnce ==
    /\ \A i \in 1..MaxCalls :
         ForeignPending(i) ~>
            \/ RanOnce(i)
            \/ (i \in Ids /\ ~target[calls[i].core].alive)
    /\ [](\A i \in Ids : calls[i].runs > 0 => RanOnce(i))

\* A foreign Call ran while the target stayed alive, and the target's counter
\* advanced by the argument of the call.
C5_Witness ==
    \E i \in Ids :
        /\ Foreign(i) /\ RanOnce(i)
        /\ target[calls[i].core].alive
        /\ target[calls[i].core].counter = calls[i].c0 + calls[i].a1

RECURSIVE SumRuns(_, _)
SumRuns(c, n) ==
    IF n = 0 THEN 0
    ELSE SumRuns(c, n - 1) + (IF calls[n].core = c THEN calls[n].runs ELSE 0)

\* Executions of target members of core c, and Calls made through its handles.
Executions(c) == SumRuns(c, Len(calls))
Invocations(c) == Cardinality({i \in Ids : calls[i].core = c})

\* The number of tasks of call number i waiting in the message loops.
Waiting(i) ==
    Cardinality({<<t, k>> \in Threads \X (1..(MaxCalls + Cardinality(Cores))) :
                    k \in DOMAIN queue[t] /\ queue[t][k].id = i})

\* C6: a Call runs the target member at most once: the executions of a core
\* never exceed the Calls made through its handles, no Call ran twice, at most
\* one task of a Call is ever waiting, and a Call that was dropped or has run
\* has no task waiting (it is not queued again).
C6_AtMostOneExecution ==
    /\ \A c \in Cores : Executions(c) <= Invocations(c)
    /\ \A i \in Ids :
        /\ calls[i].runs <= 1
        /\ Waiting(i) <= 1
        /\ calls[i].st \in {"dropped", "ran"} => Waiting(i) = 0
        /\ calls[i].st = "dropped" => calls[i].runs = 0

\* One foreign Call was dropped and another Call ran.
C6_Witness ==
    \E i, j \in Ids :
        /\ calls[i].st = "dropped" /\ Foreign(i)
        /\ calls[j].st = "ran"
        /\ Executions(calls[i].core) = 1
        /\ Invocations(calls[i].core) = 2

\* The step makes a Call (it appends the record of a call); NewCall is that
\* record, whose number is Len(calls').
CallMade == Len(calls') = Len(calls) + 1
NewCall == calls'[Len(calls')]

\* C7: a Call made on the owner thread is dispatched within the call: the
\* message loops are left as they were, and the new call has already run once
\* on the calling thread with its argument if the target is alive, and is
\* already dropped if it is not.
C7_OwnerCallIsSynchronous ==
    [][CallMade /\ NewCall.from = owner[NewCall.core] =>
        /\ queue' = queue
        /\ IF target[NewCall.core].alive
           THEN /\ NewCall.st = "ran"
                /\ NewCall.runs = 1
                /\ NewCall.xt = NewCall.from
                /\ NewCall.xarg = NewCall.a1
                /\ target'[NewCall.core].counter
                      = target[NewCall.core].counter + NewCall.a1
           ELSE /\ NewCall.st = "dropped"
                /\ NewCall.runs = 0
                /\ target' = target]_vars

\* A Call made on the owner thread has run while an earlier foreign Call was
\* still waiting in the owner's message loop.
C7_Witness ==
    \E i, j \in Ids :
        /\ ~Foreign(i) /\ calls[i].st = "ran"
        /\ j < i /\ Foreign(j) /\ calls[j].st = "queued"

\* Handle h is bound and t is not the owner thread of its core.
OnForeignThread(t, h) ==
    h \in handles /\ core_[h] # NULL /\ owner[core_[h]] # t

\* C8: a Call made on a foreign thread through a bound handle appends exactly
\* one task to the owner's message loop and returns: it does not abort, it
\* leaves the other message loops and the target as they were and runs
\* nothing; and it can be taken whatever the owner's message loop holds and
\* whether the target is alive or not.
C8_ForeignCallOnlyEnqueues ==
    /\ [][CallMade /\ NewCall.from # owner[NewCall.core] =>
            LET o == owner[NewCall.core]
            IN  /\ queue'[o] = Append(queue[o],
                       CallTask(NewCall.core, Len(calls'), NewCall.a1))
                /\ \A u \in Threads \ {o} : queue'[u] = queue[u]
                /\ target' = target
                /\ crashed' = NoCrash
                /\ NewCall.st = "queued"
                /\ NewCall.runs = 0]_vars
    /\ [](\A t \in Threads, h \in Handles :
            Running /\ OnForeignThread(t, h) /\ Len(calls) < MaxCalls
                => ENABLED (Call(t, h) /\ CallMade))

\* A foreign Call was made on a dead target while an earlier task was still
\* waiting in the owner's message loop.
C8_Witness ==
    \E i \in Ids :
        /\ Foreign(i) /\ ~calls[i].alive /\ calls[i].st = "queued"
        /\ Len(queue[OwnerOf(i)]) = 2

\* Get() through h on thread t returns the WeakPtr of h's core.
GetReturns(t, h) ==
    Get(t, h) /\ crashed' = NoCrash /\ <<core_[h], t, "get">> \in ptrAccess'

\* Get() through h on thread t aborts, the WeakPtr untouched.
GetAborts(t, h) ==
    Get(t, h) /\ crashed' = "Get:IsOnOwnerThread" /\ ptrAccess' = ptrAccess

\* C9: Get() through a bound handle returns the core's WeakPtr when called on
\* the core's owner thread, and aborts without touching the WeakPtr when
\* called on any other thread.
C9_GetOnlyOnOwnerThread ==
    \A t \in Threads, h \in Handles :
        Running /\ h \in handles /\ core_[h] # NULL =>
            IF t = owner[core_[h]]
            THEN /\ ENABLED GetReturns(t, h)
                 /\ ~ENABLED (Get(t, h) /\ crashed' # NoCrash)
            ELSE /\ ENABLED GetAborts(t, h)
                 /\ ~ENABLED (Get(t, h) /\ crashed' = NoCrash)

\* Get() succeeded on the owner thread while every handle was bound to the
\* core, and a Get() on a foreign thread then aborted the process.
C9_Witness ==
    /\ crashed = "Get:IsOnOwnerThread"
    /\ \E c \in Cores :
        /\ <<c, owner[c], "get">> \in ptrAccess
        /\ \A h \in Handles : h \in handles /\ core_[h] = c

\* Nothing but the abort itself happens in the step.
OnlyAborts ==
    UNCHANGED <<handles, core_, cores, owner, ref_count, ptr_, target, queue,
                calls, ptrAccess>>

\* C10: Get() and Call() through an uninitialized handle abort on every
\* thread, and the aborting call changes nothing else: no task is posted, no
\* call is recorded, no target member runs, no core is touched.
C10_UninitializedIsFatal ==
    \A t \in Threads, h \in Handles :
        Running /\ h \in handles /\ core_[h] = NULL =>
            /\ ENABLED (Get(t, h) /\ crashed' = "Get:IsInitialized")
            /\ ~ENABLED (Get(t, h)
                          /\ ~(crashed' = "Get:IsInitialized" /\ OnlyAborts))
            /\ Len(calls) < MaxCalls =>
                /\ ENABLED (Call(t, h) /\ crashed' = "Call:IsInitialized")
                /\ ~ENABLED (Call(t, h)
                              /\ ~(crashed' = "Call:IsInitialized"
                                   /\ OnlyAborts))

\* Call() aborted on an uninitialized handle while another handle was bound.
C10_Witness ==
    /\ crashed = "Call:IsInitialized"
    /\ \E h, g \in handles : core_[h] = NULL /\ core_[g] # NULL

\* Handle h holds the only reference to its core.
LastRef(h) == h \in handles /\ core_[h] # NULL /\ ref_count[core_[h]] = 1

\* The step destroys core c and deletes its WeakPtr on the owner thread,
\* posting nothing.
DeletedInStep(c) ==
    /\ cores'[c] = "destroyed"
    /\ ptr_'[c] = "deleted"
    /\ <<c, owner[c], "delete">> \in ptrAccess'
    /\ queue' = queue

\* The step destroys core c, leaves its WeakPtr untouched and appends one
\* deletion task to the owner's message loop.
PostedInStep(c) ==
    /\ cores'[c] = "destroyed"
    /\ ptr_'[c] = "live"
    /\ ptrAccess' = ptrAccess
    /\ queue'[owner[c]] = Append(queue[owner[c]], DeleteTask(c))
    /\ \A u \in Threads \ {owner[c]} : queue'[u] = queue[u]

\* The step is the owner's message loop running the deletion task of core c.
DeleteTaskRuns(c) ==
    /\ cores[c] = "destroyed"
    /\ queue[owner[c]] # << >>
    /\ Head(queue[owner[c]]) = DeleteTask(c)
    /\ queue'[owner[c]] = Tail(queue[owner[c]])
    /\ <<c, owner[c], "delete_soon">> \in ptrAccess'

\* C11: releasing the last reference to a core (Reset or destruction of the
\* last handle) on the owner thread deletes the WeakPtr in that step; on a
\* foreign thread it leaves the WeakPtr alone and posts one deletion task to
\* the owner's message loop; and the WeakPtr is only ever deleted in the step
\* that destroys the core on the owner thread or by the owner's message loop
\* running that task.
C11_LastReleaseDeletesOnOwnerThread ==
    /\ [](\A t \in Threads, h \in Handles :
            Running /\ LastRef(h) =>
                IF t = owner[core_[h]]
                THEN /\ ENABLED (Reset(t, h) /\ DeletedInStep(core_[h]))
                     /\ ~ENABLED (Reset(t, h) /\ ~DeletedInStep(core_[h]))
                     /\ ENABLED (Destroy(t, h) /\ DeletedInStep(core_[h]))
                     /\ ~ENABLED (Destroy(t, h) /\ ~DeletedInStep(core_[h]))
                ELSE /\ ENABLED (Reset(t, h) /\ PostedInStep(core_[h]))
                     /\ ~ENABLED (Reset(t, h) /\ ~PostedInStep(core_[h]))
                     /\ ENABLED (Destroy(t, h) /\ PostedInStep(core_[h]))
                     /\ ~ENABLED (Destroy(t, h) /\ ~PostedInStep(core_[h])))
    /\ [][\A c \in Cores :
            ptr_[c] = "live" /\ ptr_'[c] = "deleted" =>
                \/ /\ cores[c] = "live"
                   /\ cores'[c] = "destroyed"
                   /\ <<c, owner[c], "delete">> \in ptrAccess'
                \/ DeleteTaskRuns(c)]_vars

\* The last handle was released on a foreign thread while the WeakPtr stayed
\* alive in between, and the owner's message loop has since deleted it.
C11_Witness ==
    \E c \in Cores :
        /\ ptr_[c] = "deleted"
        /\ <<c, owner[c], "delete_soon">> \in ptrAccess
        /\ <<c, owner[c], "delete">> \notin ptrAccess
        /\ calls = << >>

\* The handles that refer to core c, and the tasks of a given kind that are
\* waiting for core c in the message loops.
Holders(c) == {h \in handles : core_[h] = c}
Tasks(c, kind) ==
    {<<t, k>> \in Threads \X (1..(MaxCalls + Cardinality(Cores))) :
        /\ k \in DOMAIN queue[t]
        /\ queue[t][k].kind = kind
        /\ queue[t][k].core = c}

\* C12: however a bound handle was copied and on whichever threads the copies
\* were released, the core is released exactly once: its reference count is
\* the number of handles (and pending bound closures) that refer to it, it is
\* alive while any of them exists, it is destroyed once none is left, and it
\* and its WeakPtr are never destroyed twice (no second deletion task, no
\* deletion of an already deleted WeakPtr).
C12_CoreReleasedExactlyOnce ==
    /\ \A c \in Cores :
        /\ ref_count[c] =
              Cardinality(Holders(c)) + Cardinality(Tasks(c, "DoCall"))
        /\ ref_count[c] > 0 <=> cores[c] = "live"
        /\ cores[c] = "live" =>
              ptr_[c] = "live" /\ Tasks(c, "DeleteSoon") = {}
        /\ cores[c] = "unborn" =>
              ptr_[c] = "none" /\ Tasks(c, "DeleteSoon") = {}
        /\ cores[c] = "destroyed" =>
              \/ ptr_[c] = "live" /\ Cardinality(Tasks(c, "DeleteSoon")) = 1
              \/ ptr_[c] = "deleted" /\ Tasks(c, "DeleteSoon") = {}
    /\ \A a \in ptrAccess : a[3] # "uaf"

\* Every handle slot held a handle, every handle has been released, no Call
\* was made, and the core and its WeakPtr are destroyed, the last reference
\* having been dropped on a foreign thread.
C12_Witness ==
    \E c \in Cores :
        /\ handles = Handles
        /\ Holders(c) = {}
        /\ calls = << >>
        /\ cores[c] = "destroyed"
        /\ ptr_[c] = "deleted"
        /\ ptrAccess = {<<c, owner[c], "new">>, <<c, owner[c], "delete_soon">>}

\* C13: of two Calls that the same foreign thread submitted to the same core,
\* the later one is never dispatched while the earlier one is still waiting
\* (OrderSpec: two handles of the core, three threads); and thread identity
\* gives no priority: whenever a bound handle exists and a Call can still be
\* made, each thread is able to submit the next Call.
C13_SameThreadCallsRunInOrder ==
    /\ \A i, j \in Ids :
        /\ i < j
        /\ calls[i].core = calls[j].core
        /\ calls[i].from = calls[j].from
        /\ Foreign(i)
        => (calls[j].st # "queued" => calls[i].st # "queued")
    /\ \A t \in Threads \cup {Submitter}, h \in Handles :
        Running /\ h \in handles /\ Len(calls) < MaxCalls
            => ENABLED (Call(t, h) /\ CallMade /\ NewCall.from = t)

\* Two Calls of one foreign thread made through different handles: the first
\* has run and the second is still waiting.
C13_Witness ==
    /\ Cardinality(Holders(1)) = 2
    /\ \E i, j \in Ids :
        /\ i < j
        /\ calls[i].from = calls[j].from
        /\ Foreign(i)
        /\ calls[i].st = "ran"
        /\ calls[j].st = "queued"

\* Calls of different foreign threads run in the order in which they reached
\* the owner's message loop: here the third thread's Call ran while a Call
\* of the other foreign thread, submitted later, is still waiting.
C13_EitherOrder ==
    \E i, j \in Ids :
        /\ i < j
        /\ Foreign(i) /\ Foreign(j)
        /\ calls[i].from = Submitter
        /\ calls[j].from # Submitter
        /\ calls[i].st = "ran"
        /\ calls[j].st = "queued"

\* The two states of a WeakHandle object.
Bound(h) == h \in handles /\ core_[h] # NULL
Uninitialized(h) == h \in handles /\ core_[h] = NULL

\* What every constructor, copy, assignment and Reset makes of the handle it
\* acts on, in every state in which it can be called.
HandleTransitions ==
    \A t \in Threads, h \in Handles :
        Running =>
            /\ Fresh(h) =>
                ENABLED (DefaultConstruct(t, h)
                            /\ h \in handles' /\ core_'[h] = NULL)
            /\ Fresh(h) /\ (\E c \in Cores : cores[c] = "unborn") =>
                ENABLED (MakeWeakHandle(t, h)
                            /\ h \in handles' /\ core_'[h] # NULL)
            /\ h \in handles =>
                ENABLED (Reset(t, h) /\ h \in handles' /\ core_'[h] = NULL)
            /\ \A h2 \in Handles :
                /\ Bound(h) /\ Fresh(h2) =>
                    ENABLED (Copy(t, h, h2)
                                /\ h2 \in handles'
                                /\ core_'[h2] = core_[h]
                                /\ core_'[h] = core_[h])
                /\ Bound(h) /\ h2 \in handles =>
                    ENABLED (Assign(t, h, h2)
                                /\ core_'[h2] = core_[h]
                                /\ core_'[h] = core_[h])

\* An operation that is neither Reset nor the destruction of a handle.
OtherOperation ==
    \/ \E t \in Threads, h \in Handles : DefaultConstruct(t, h)
    \/ \E t \in Threads, h \in Handles : MakeWeakHandle(t, h)
    \/ \E t \in Threads, h \in Handles, h2 \in Handles : Copy(t, h, h2)
    \/ \E t \in Threads, h \in Handles, h2 \in Handles : Assign(t, h, h2)
    \/ \E t \in Threads, h \in Handles : Get(t, h)
    \/ \E t \in Threads, h \in Handles : Call(t, h)
    \/ \E t \in Threads, c \in Cores : DestroyTarget(t, c)
    \/ \E t \in Threads : RunTask(t)

\* C14 as stated: every handle is Uninitialized or Bound (to a live core),
\* the constructors, copy and Reset lead to the states named, and no
\* operation other than Reset or destruction takes a handle out of Bound.
C14_OnlyResetLeavesBound ==
    /\ \A h \in handles : Bound(h) => cores[core_[h]] = "live"
    /\ HandleTransitions
    /\ ~ENABLED (OtherOperation /\ \E g \in Handles : Bound(g) /\ ~Bound(g)')

\* C14, amended: as stated, except that a Bound handle also becomes
\* Uninitialized when an Uninitialized handle is assigned to it (operator=
\* stores the NULL core_, which is what Reset does): every step that takes a
\* handle out of Bound is the step Reset or the destruction of that handle
\* makes, and assignment from an Uninitialized handle is such a step.
C14_HandleStates ==
    /\ [](\A h \in handles : Bound(h) => cores[core_[h]] = "live")
    /\ [](HandleTransitions)
    /\ [](\A t \in Threads, h \in Handles, h2 \in Handles :
            Running /\ Uninitialized(h) /\ h2 \in handles =>
                ENABLED (Assign(t, h, h2)
                            /\ h2 \in handles' /\ core_'[h2] = NULL))
    /\ [][\A g \in Handles :
            Bound(g) /\ ~Bound(g)' =>
                \E t \in Threads : Reset(t, g) \/ Destroy(t, g)]_vars

\* Both handle slots hold handles bound to the same core (one of them is a
\* copy), which nothing else refers to.
C14_Witness ==
    \E c \in Cores :
        /\ handles = Handles
        /\ \A h \in Handles : core_[h] = c
        /\ ref_count[c] = MaxHandles
        /\ crashed = NoCrash

\* C15: IsInitialized() of a handle is true exactly when the handle holds a
\* core (a live core that counts the handle among its references), whichever
\* thread asks and whether the target is alive or not; and the step that
\* destroys the target leaves IsInitialized() of every handle as it was.
C15_IsInitializedIffCoreAttached ==
    /\ [](\A h \in handles :
            IsInitialized(Cur, h) <=>
                (core_[h] \in Cores /\ cores[core_[h]] = "live"
                    /\ ref_count[core_[h]] >= Cardinality(Holders(core_[h]))))
    /\ [][\A c \in Cores :
            target[c].alive /\ ~target'[c].alive =>
                \A h \in Handles :
                    /\ h \in handles <=> h \in handles'
                    /\ IsInitialized(Cur, h) <=> IsInitialized(Cur, h)']_vars

\* A handle is initialized although its target has been destroyed, and
\* another handle is not initialized.
C15_Witness ==
    \E h, g \in handles :
        /\ IsInitialized(Cur, h)
        /\ ~target[core_[h]].alive
        /\ ~IsInitialized(Cur, g)
        /\ crashed = NoCrash

\* State s with the target of core c alive (b = TRUE) or destroyed (FALSE).
WithTarget(s, c, b) == [s EXCEPT !.target[c].alive = b]

\* What a thread that holds handles can observe without being the owner:
\* the handles, what they are bound to, IsInitialized() of each, and whether
\* the process was aborted (a failed CHECK is the only error signal).
Visible(s) ==
    [handles |-> s.handles,
     core_ |-> s.core_,
     initialized |-> [h \in Handles |-> IsInitialized(s, h)],
     crashed |-> s.crashed]

\* C16: a Call made on a foreign thread shows its caller nothing about the
\* target's liveness.  From every reachable state, making the Call with the
\* target alive and making it with the target destroyed return without
\* abort and leave the same handles, bindings and IsInitialized() values;
\* and when the owner's message loop later dispatches the task of a foreign
\* Call, doing so with the target alive and with the target destroyed again
\* leave the same observable state (no abort, no signal).
C16_ForeignCallerCannotObserveLiveness ==
    /\ \A t \in Threads, h \in Handles :
        Running /\ OnForeignThread(t, h) /\ Len(calls) < MaxCalls =>
            LET sa == HandleCall(WithTarget(Cur, core_[h], TRUE), h, t, NextArg)
                sd == HandleCall(WithTarget(Cur, core_[h], FALSE), h, t, NextArg)
            IN  /\ Visible(sa) = Visible(sd)
                /\ Visible(sa) = Visible(Cur)
                /\ sa.queue = sd.queue
    /\ \A o \in Threads :
        /\ Running
        /\ queue[o] # << >>
        /\ Head(queue[o]).kind = "DoCall"
        /\ Foreign(Head(queue[o]).id)
        => LET task == Head(queue[o])
               s1 == [Cur EXCEPT !.queue[o] = Tail(@)]
               sa == RunClosure(WithTarget(s1, task.core, TRUE), task, o)
               sd == RunClosure(WithTarget(s1, task.core, FALSE), task, o)
           IN  /\ Visible(sa) = Visible(sd)
               /\ Visible(sa) = Visible(Cur)

\* The same foreign thread made one Call that ran on the live target and one
\* that was dropped on the dead target, and the process goes on running.
C16_Witness ==
    /\ crashed = NoCrash
    /\ \E i, j \in Ids :
        /\ Foreign(i) /\ Foreign(j)
        /\ calls[i].from = calls[j].from
        /\ calls[i].st = "ran"
        /\ ~calls[j].alive /\ calls[j].st = "dropped"
        /\ \A h \in handles : IsInitialized(Cur, h)

\* The task of call number i is waiting, once, in the message loop of the
\* owner of its core.
TaskWaits(i) ==
    /\ Waiting(i) = 1
    /\ \E k \in DOMAIN queue[OwnerOf(i)] :
          queue[OwnerOf(i)][k] = CallTask(calls[i].core, i, calls[i].a1)

\* C17: a submitted Call cannot be cancelled.  While a Call of a foreign
\* thread is not dispatched, its task stays in the owner's message loop and
\* its core stays alive, whatever is done to the handles (Reset, assignment,
\* destruction, of the submitting handle or of all of them); the step that
\* dispatches it runs on the owner thread and runs the target member exactly
\* when the target is alive in that step; and with the owner's message loop
\* running (FairSpec) every such Call is dispatched.
C17_NoCancellation ==
    /\ [](\A i \in Ids :
            Foreign(i) /\ calls[i].st = "queued" =>
                /\ TaskWaits(i)
                /\ cores[calls[i].core] = "live"
                /\ ptr_[calls[i].core] = "live")
    /\ [][\A i \in Ids :
            Foreign(i) /\ calls[i].st = "queued" =>
                \/ calls'[i] = calls[i]
                \/ /\ target[calls[i].core].alive
                   /\ calls'[i].st = "ran"
                   /\ calls'[i].runs = 1
                   /\ calls'[i].xt = OwnerOf(i)
                   /\ target'[calls[i].core].counter
                         = target[calls[i].core].counter + calls[i].a1
                \/ /\ ~target[calls[i].core].alive
                   /\ calls'[i].st = "dropped"
                   /\ calls'[i].runs = 0
                   /\ target' = target]_vars
    /\ \A i \in 1..MaxCalls :
         ForeignPending(i) ~> (i \in Ids /\ calls[i].st # "queued")

\* A foreign Call is still waiting after every handle has been destroyed:
\* only its task keeps the core alive.
C17_Witness ==
    \E i \in Ids :
        /\ Foreign(i) /\ calls[i].st = "queued"
        /\ handles = {}
        /\ ref_count[calls[i].core] = 1
        /\ target[calls[i].core].alive

\* Such a Call, made while the target was alive, has then run: every handle
\* is gone and the closure dropped the last reference on the owner thread.
C17_RanAfterRelease ==
    \E i \in Ids :
        /\ Foreign(i) /\ calls[i].st = "ran"
        /\ handles = {}
        /\ cores[calls[i].core] = "destroyed"
        /\ <<calls[i].core, OwnerOf(i), "delete">> \in ptrAccess

\* What Reset() of handle h leaves behind: h is uninitialized, every other
\* handle is what it was, one share of h's core (if it had one) is released,
\* and nothing else happens as long as another reference to the core remains.
ResetEffect(h) ==
    /\ handles' = handles
    /\ core_'[h] = NULL
    /\ \A g \in Handles \ {h} : core_'[g] = core_[g]
    /\ crashed' = NoCrash
    /\ target' = target /\ calls' = calls /\ owner' = owner
    /\ IF core_[h] = NULL
       THEN UNCHANGED vars
       ELSE /\ ref_count'[core_[h]] = ref_count[core_[h]] - 1
            /\ ref_count[core_[h]] > 1 =>
                UNCHANGED <<cores, ptr_, queue, ptrAccess>>
            /\ \A g \in Holders(core_[h]) \ {h} :
                /\ cores'[core_'[g]] = "live"
                /\ ptr_'[core_'[g]] = "live"

\* C18: Reset() can be called on every thread and on every handle, and it
\* affects only that handle: the handle becomes uninitialized and one share
\* of its core is released (nothing at all changes if it was uninitialized
\* already), while every other handle of the core stays bound to it with the
\* core and its WeakPtr intact, hence usable for Get and Call.
C18_ResetAffectsOnlyItsHandle ==
    \A t \in Threads, h \in Handles :
        Running /\ h \in handles =>
            /\ ENABLED (Reset(t, h) /\ ResetEffect(h))
            /\ ~ENABLED (Reset(t, h) /\ ~ResetEffect(h))

\* One handle is uninitialized while the other is still bound to the core,
\* which a waiting foreign Call refers to as well.
C18_Witness ==
    \E h, g \in handles, i \in Ids :
        /\ Uninitialized(h)
        /\ Bound(g)
        /\ ref_count[core_[g]] = 2
        /\ Foreign(i) /\ calls[i].st = "queued"
        /\ crashed = NoCrash

\* The owner thread of a constructed core is the thread that constructed it
\* (the one that made the WeakPtr copy), IsOnOwnerThread() is true for that
\* thread only, and the owner never changes once the core is constructed.
OwnerIsConstructor ==
    \A c \in Cores :
        cores[c] # "unborn" =>
            \A t \in Threads :
                IsOnOwnerThread(Cur, c, t) <=> <<c, t, "new">> \in ptrAccess

OwnerIsFixed ==
    \A c \in Cores : cores[c] # "unborn" => owner'[c] = owner[c]

\* A handle can be constructed in slot h for a core that does not exist yet.
CanConstruct(h) ==
    Running /\ Fresh(h) /\ \E c \in Cores : cores[c] = "unborn"

\* C19 as stated: the owner thread is the constructing thread, fixed for the
\* core's lifetime, IsOnOwnerThread() is true exactly for it, and constructing
\* a core on a thread other than the target's halts execution.
C19_OffThreadConstructionHalts ==
    /\ [](OwnerIsConstructor)
    /\ [][OwnerIsFixed]_vars
    /\ [](\A t \in Threads, h \in Handles :
            CanConstruct(h) =>
                ~ENABLED (MakeWeakHandleOffThread(t, h) /\ crashed' = NoCrash))

\* C19, amended: the owner thread is the constructing thread, fixed for the
\* core's lifetime, and IsOnOwnerThread() is true exactly for it; constructing
\* a core on a thread other than the target's is not detected: the
\* constructor has no error path, the process goes on and the constructing
\* thread becomes the owner.
C19_OwnerIsConstructingThread ==
    /\ [](OwnerIsConstructor)
    /\ [][OwnerIsFixed]_vars
    /\ [](\A t \in Threads, h \in Handles :
            CanConstruct(h) =>
                /\ ENABLED (MakeWeakHandleOffThread(t, h)
                              /\ crashed' = NoCrash
                              /\ h \in handles'
                              /\ \E c \in Cores :
                                    /\ core_'[h] = c
                                    /\ owner'[c] = t
                                    /\ target'[c].thread # t)
                /\ ENABLED (MakeWeakHandle(t, h)
                              /\ crashed' = NoCrash
                              /\ \E c \in Cores :
                                    /\ core_'[h] = c
                                    /\ owner'[c] = t
                                    /\ target'[c].thread = t))

\* A core was constructed on a thread other than its target's; that thread
\* is its owner, and the last reference, dropped there, deleted the WeakPtr
\* in place.
C19_Witness ==
    \E c \in Cores :
        /\ cores[c] = "destroyed"
        /\ owner[c] # target[c].thread
        /\ <<c, owner[c], "delete">> \in ptrAccess
        /\ crashed = NoCrash

Settled ==
    /\ prov.alive
    /\ prov.logged_in
    /\ prov.register_in_flight = 0
    /\ prov.policy_in_flight = 0
    /\ ~(prov.refresh_task_pending_ /\ prov.refresh_task_due)

\* The backend has kept its mode since the login and no long delay has passed.
Undisturbed == ~prov.switched /\ ~prov.waited

\* The refresh delays of ErrorCausesNewRequest: retries at once, the regular
\* refresh far away.
RetryAtOnce ==
    /\ prov.policy_refresh_rate_ms_ = Long
    /\ prov.policy_refresh_error_delay_ms_ = Zero
    /\ prov.token_fetch_error_delay_ms_ = Zero

RegisterFails == prov.backend = "fail" \/ prov.register_failures > 0
PolicyFails == prov.backend = "fail" \/ prov.policy_failures > 0

\* A further request of a kind already sent to this backend is sent.
NewRequest ==
    \/ prov.n_register >= 1 /\ prov'.n_register > prov.n_register
    \/ prov.n_policy >= 1 /\ prov'.n_policy > prov.n_policy

C21_FailedBackend ==
    /\ Settled /\ Undisturbed
    /\ prov.backend = "fail"
    /\ prov.n_register = 1 /\ prov.n_policy = 0
    /\ prov.refresh_task_pending_ /\ ~prov.refresh_task_due

C23_QueuedTaskKeepsCoreAlive ==
    /\ [](\A c \in Cores :
            Tasks(c, "DoCall") # {} =>
                /\ cores[c] = "live"
                /\ ptr_[c] = "live"
                /\ ref_count[c] >= Cardinality(Tasks(c, "DoCall"))
                /\ Tasks(c, "DeleteSoon") = {})
    /\ [](\A c \in Cores, t \in Threads : <<c, t, "uaf">> \notin ptrAccess)
    /\ [][\A i \in Ids :
            calls[i].st = "queued" /\ calls'[i].st # "queued" =>
                /\ cores[calls[i].core] = "live"
                /\ ptr_[calls[i].core] = "live"
                /\ <<calls[i].core, OwnerOf(i), "call">> \in ptrAccess']_vars
    /\ [][\A c \in Cores :
            DeleteTaskRuns(c) =>
                /\ Tasks(c, "DoCall") = {}
                /\ \A i \in Ids :
                      calls[i].core = c => calls[i].st # "queued"]_vars

\* Every handle has been released while two calls are still waiting: only
\* their two tasks keep the core and its WeakPtr alive.
C23_Witness ==
    \E c \in Cores :
        /\ handles = {}
        /\ Cardinality(Tasks(c, "DoCall")) = 2
        /\ ref_count[c] = 2
        /\ cores[c] = "live"
        /\ ptr_[c] = "live"

\* Both calls have since been dispatched, the second one dropped the last
\* reference, and the WeakPtr was deleted after it had been read for both.
C23_DeletedAfterTasks ==
    \E c \in Cores :
        /\ handles = {}
        /\ Len(calls) = 2
        /\ \A i \in Ids : Foreign(i) /\ calls[i].st # "queued"
        /\ ptr_[c] = "deleted"
        /\ <<c, owner[c], "call">> \in ptrAccess

\* The step is a copy, an assignment, a Reset or a destruction of a handle on
\* some thread, or a Call made on a foreign thread through a bound handle.
HandleOperation ==
    \E t \in Threads, h \in Handles :
        \/ \E h2 \in Handles : Copy(t, h, h2) \/ Assign(t, h, h2)
        \/ Reset(t, h)
        \/ Destroy(t, h)
        \/ OnForeignThread(t, h) /\ Call(t, h)

\* The step releases the last reference to core c.
LastRelease(c) == ref_count[c] = 1 /\ ref_count'[c] = 0

\* The step changes nothing but the handles, their bindings, the reference
\* counts, the message loops and the record of the calls made.
OnlyBindingsCountsAndQueues ==
    /\ target' = target
    /\ owner' = owner
    /\ crashed' = crashed

\* The statement as the specification words it: no handle operation changes
\* the target or the wrapped WeakPtr; only bindings, reference counts and
\* the owner's message loop change.
C24_HandleOperationsLeaveWeakPtr ==
    [][HandleOperation =>
        /\ OnlyBindingsCountsAndQueues
        /\ ptr_' = ptr_]_vars

\* C24: copy, assignment, Reset and destruction of a handle on any thread and
\* the submission of a Call on a foreign thread leave the target's state and
\* liveness unchanged and abort nothing; they change handle bindings,
\* reference counts and the owner's message loop, and the WeakPtr and the
\* core stay as they are except in the step that releases the last reference
\* to the core: that step destroys the core and, made on the owner thread,
\* deletes the WeakPtr at once, while made on a foreign thread it leaves the
\* WeakPtr alone and posts its deletion to the owner's message loop.
C24_HandleOperationsFrame ==
    [][HandleOperation =>
        /\ OnlyBindingsCountsAndQueues
        /\ \A u \in Threads :
              queue'[u] # queue[u] => \E c \in Cores : owner[c] = u
        /\ \A c \in Cores :
              IF LastRelease(c)
              THEN /\ cores[c] = "live" /\ cores'[c] = "destroyed"
                   /\ \/ DeletedInStep(c)
                      \/ PostedInStep(c)
              ELSE /\ ptr_'[c] = ptr_[c]
                   /\ cores'[c] = cores[c]
                   /\ \A a \in ptrAccess' \ ptrAccess : a[1] # c]_vars

\* The last handle of a core was released on the owner thread, which deleted
\* the WeakPtr in that step; no Call was ever made and the target is alive
\* and untouched.
C24_Witness ==
    \E c \in Cores :
        /\ Holders(c) = {}
        /\ calls = << >>
        /\ ptr_[c] = "deleted"
        /\ <<c, owner[c], "delete">> \in ptrAccess
        /\ target[c].alive /\ target[c].counter = 0
        /\ queue = [t \in Threads |-> << >>]

\* The step is a Call made on the owner thread of its core.
OwnerCallMade == CallMade /\ NewCall.from = owner[NewCall.core]

\* C25: a Call made on the owner thread does not wait for the foreign Calls
\* that are queued: it is dispatched within the step, in which every earlier
\* Call stays exactly as it was, the waiting foreign ones still waiting in
\* the owner's message loop; no owner-thread Call is ever queued; and
\* whenever a foreign Call is waiting, an owner-thread Call through a handle
\* of the same core can be made and overtakes it.  The order of submission is
\* therefore not the order of execution across owner and foreign threads.
C25_OwnerCallOvertakesQueuedCalls ==
    /\ [][OwnerCallMade =>
            /\ NewCall.st # "queued"
            /\ target[NewCall.core].alive => NewCall.st = "ran"
            /\ queue' = queue
            /\ \A j \in Ids : calls'[j] = calls[j]]_vars
    /\ [](\A i \in Ids : ~Foreign(i) => calls[i].st # "queued")
    /\ [](\A j \in Ids, h \in handles :
            /\ Running
            /\ Len(calls) < MaxCalls
            /\ ForeignPending(j)
            /\ core_[h] = calls[j].core
            => ENABLED (/\ Call(OwnerOf(j), h)
                        /\ NewCall.st # "queued"
                        /\ calls'[j].st = "queued"
                        /\ TaskWaits(j)'))

\* The target has run the later owner-thread Call and nothing else: the
\* foreign Call submitted before it is still waiting in the message loop.
C25_Witness ==
    \E i, j \in Ids :
        /\ j < i
        /\ Foreign(j) /\ calls[j].st = "queued" /\ calls[j].alive
        /\ ~Foreign(i) /\ calls[i].st = "ran"
        /\ calls[i].core = calls[j].core
        /\ target[calls[i].core].counter = calls[i].a1
        /\ TaskWaits(j)
====
